---- MODULE Spec2Model ----
(***************************************************************************)
(* cargo-update-target-dylibs (src/src/main.rs): the interpretation of the *)
(* `cargo build --message-format json` stream, the resolution of the       *)
(* target directory, the search of each linked library among its candidate *)
(* directories and the recursive, symlink-following copy.                  *)
(*                                                                         *)
(* Text is modelled structurally.  A file or directory name is a sequence  *)
(* of tokens (<<"lib","foo",".so">> is "libfoo.so"), a path is the         *)
(* sequence of its components below the root (<<>> is "/"), and an         *)
(* Option is a sequence of length 0 (None) or 1 (Some).                    *)
(***************************************************************************)
EXTENDS Naturals, Sequences, FiniteSets

VARIABLES
    stream,       \* the lines of `cargo build` output (input)
    pkg_id,       \* the output of `cargo pkgid` (input)
    i,            \* enumerate() index of the next line of the stream
    pkg_message,  \* Option<BuildMessage>: the captured artifact message
    libraries,    \* Vec<Library>
    target_path,  \* Option<PathBuf>: the resolved target directory
    pc,           \* position of the process
    err,          \* the error main returned with, if any
    fs,           \* the filesystem: path -> entry
    fs0,          \* history: the filesystem when the current request began
    li,           \* number of libraries taken from `libraries` (line 121)
    lib_name,     \* file name of the library being searched (line 122)
    todo,         \* candidate directories not yet yielded by paths.into_iter()
    tried,        \* history: candidates examined for the current library
    hits,         \* history: per library of this run, Option of the source
                  \* handed to copy (line 139)
    arg,          \* src_path of the copy call being entered
    stack,        \* frames of copy calls waiting for their recursive call
    ret,          \* result of the copy call that just returned
    calls,        \* history: copy calls made for the current top-level copy
    run,          \* 1 in the first run of the tool, 2 in a re-run
    dst1          \* history: the filesystem and the hits of the first run

vars == <<stream, pkg_id, i, pkg_message, libraries, target_path, pc, err,
          fs, fs0, li, lib_name, todo, tried, hits, arg, stack, ret, calls,
          run, dst1>>

interpVars == <<stream, pkg_id, i, pkg_message, libraries, target_path>>
matVars == <<fs, fs0, li, lib_name, todo, tried, hits, arg, stack, ret, calls,
             run, dst1>>

-----------------------------------------------------------------------------
(* Options, results and errors *)

None == <<>>
Some(v) == <<v>>
IsSome(o) == Len(o) = 1
IsNone(o) == Len(o) = 0
Unwrap(o) == o[1]

\* anyhow errors: a kind (the message's fixed text) and what the message names
Error(kind, what) == [kind |-> kind, arg |-> <<what>>]
NoError == [kind |-> "none", arg |-> <<>>]
Failed(e) == e.kind # "none"

-----------------------------------------------------------------------------
(* Paths and names *)

\* Path::parent: None for the root
Parent(p) == IF Len(p) = 0 THEN None ELSE Some(SubSeq(p, 1, Len(p) - 1))

\* Path::join with a single normal component
Join(p, name) == Append(p, name)

\* Path::file_name: None for the root
FileName(p) == IF Len(p) = 0 THEN None ELSE Some(p[Len(p)])

\* str::ends_with on the text of a path: the suffix is within the last component
EndsWith(p, suffix) ==
    /\ Len(p) > 0
    /\ LET last == p[Len(p)]
       IN /\ Len(last) >= Len(suffix)
          /\ SubSeq(last, Len(last) - Len(suffix) + 1, Len(last)) = suffix

TargetOs == "linux"
DYLIB_PREFIX == IF TargetOs = "windows" THEN <<>> ELSE <<"lib">>
DYLIB_SUFFIX ==
    IF TargetOs = "windows" THEN <<".dll">>
    ELSE IF TargetOs = "macos" THEN <<".dylib">>
    ELSE <<".so">>

RlibSuffix == <<".rlib">>
DepsDir == <<"deps">>
BinDir == <<"bin">>

-----------------------------------------------------------------------------
(* The build messages the interpreter is run on *)

MaxLines == 3

Pkg == "pkg"
Dep == "dep"
Dep2 == "dep2"

Foo == <<"foo">>
Bar == <<"bar">>

DirALib == << <<"a">>, <<"lib">> >>
DirABin == << <<"a">>, <<"bin">> >>
DirB == << <<"b">> >>
Root == <<>>

Message(reason, package_id, linked_libs, linked_paths, executable, filenames) ==
    [reason |-> reason, package_id |-> package_id, linked_libs |-> linked_libs,
     linked_paths |-> linked_paths, executable |-> executable,
     filenames |-> filenames]

Artifact(package_id, executable, filenames) ==
    Message("compiler-artifact", package_id, None, None, executable, filenames)

BuildScript(package_id, linked_libs, linked_paths) ==
    Message("build-script-executed", package_id, linked_libs, linked_paths,
            None, None)

ExeApp == << <<"out">>, <<"bin">>, <<"app">> >>
ExeOther == << <<"exe">>, <<"app">> >>
FileA == << <<"x">>, <<"lib", "foo", ".a">> >>
FileRlib == << <<"out">>, <<"lib", "foo", ".rlib">> >>
FileRlib2 == << <<"alt">>, <<"lib", "foo", ".rlib">> >>

Messages ==
    { Artifact(Some(Pkg), Some(ExeApp), None),
      Artifact(Some(Pkg), Some(ExeOther), Some(<<FileRlib>>)),
      Artifact(Some(Pkg), None, Some(<<FileA, FileRlib, FileRlib2>>)),
      Artifact(Some(Pkg), None, Some(<<FileA>>)),
      Artifact(Some(Pkg), None, None),
      Artifact(Some(Pkg), Some(Root), None),
      Artifact(Some(Dep), Some(ExeOther), None),
      Message("build-finished", None, None, None, None, None),
      BuildScript(Some(Dep), Some(<<Foo, Bar>>), Some(<<DirALib, DirB, DirALib>>)),
      BuildScript(Some(Dep2), Some(<<Foo, Foo>>), Some(<<DirB>>)),
      BuildScript(Some(Pkg), Some(<<Bar>>), Some(<<Root>>)),
      BuildScript(Some(Dep2), Some(<<Foo>>), None),
      BuildScript(Some(Dep), Some(<<Foo>>), Some(<<>>)),
      BuildScript(Some(Dep), Some(<<>>), None),
      BuildScript(Some(Dep), None, Some(<<DirB>>)),
      BuildScript(None, Some(<<Foo>>), Some(<<DirB>>)) }

\* a line: text that serde_json decodes into a BuildMessage, or does not
Decoded(m) == [decodes |-> TRUE, message |-> m]
Garbage == [decodes |-> FALSE, message |-> Message("", None, None, None, None, None)]
Lines == {Decoded(m) : m \in Messages} \cup {Garbage}

Streams == UNION {[1..n -> Lines] : n \in 0..MaxLines}

-----------------------------------------------------------------------------
(* main, lines 53-93: the loop over the lines of the stream *)

Library(name, paths) == [name |-> name, paths |-> paths]

\* line 57: the context of a decode failure
DecodeErrorPlus1(index) == Error("decode", index + 1)
DecodeError(index) == Error("decode", index)

\* line 58
IsDesignatedArtifact(message, pkg) ==
    /\ message.reason = "compiler-artifact"
    /\ IsSome(message.package_id)
    /\ Unwrap(message.package_id) = pkg

\* line 59: the assignment to pkg_message
CaptureFirst(captured, message) ==
    IF IsNone(captured) THEN Some(message) ELSE captured
Capture(captured, message) == Some(message)

\* lines 62-66 and 70-72
IsSkipped(message) ==
    IF message.reason # "build-script-executed" THEN TRUE
    ELSE IF IsNone(message.package_id) THEN TRUE
    ELSE IF IsNone(message.linked_libs) THEN TRUE
    ELSE Len(Unwrap(message.linked_libs)) = 0

\* line 82: collect::<HashSet<_>>()
PathSet(linked_paths) == {linked_paths[k] : k \in DOMAIN linked_paths}

\* lines 83-92: one Library per name, in order
NewLibrariesDedup(linked_libs, paths) ==
    LET firsts == {k \in DOMAIN linked_libs :
                     \A j \in 1..(k - 1) : linked_libs[j] # linked_libs[k]}
        Pick[k \in 0..Len(linked_libs)] ==
            IF k = 0 THEN <<>>
            ELSE IF k \in firsts
                 THEN Append(Pick[k - 1], Library(linked_libs[k], paths))
                 ELSE Pick[k - 1]
    IN Pick[Len(linked_libs)]
NewLibraries(linked_libs, paths) ==
    [k \in DOMAIN linked_libs |-> Library(linked_libs[k], paths)]

\* lines 73-81: the two checks of linked_paths
PathsCheckLenient(message) == NoError
PathsCheck(message) ==
    IF IsNone(message.linked_paths)
    THEN Error("missing paths for libraries in package", Unwrap(message.package_id))
    ELSE IF Len(Unwrap(message.linked_paths)) = 0
    THEN Error("no paths for libraries in package", Unwrap(message.package_id))
    ELSE NoError

Line == stream[i + 1]

AtLine ==
    /\ pc = "interpret"
    /\ i < Len(stream)

Fail(e) ==
    /\ pc' = "failed"
    /\ err' = e

\* lines 56-57: from_str fails and `?` returns
DecodeFailure ==
    /\ AtLine
    /\ ~Line.decodes
    /\ Fail(DecodeError(i))
    /\ UNCHANGED <<interpVars, matVars>>

\* lines 58-61
CaptureArtifact ==
    /\ AtLine
    /\ Line.decodes
    /\ IsDesignatedArtifact(Line.message, pkg_id)
    /\ pkg_message' = Capture(pkg_message, Line.message)
    /\ i' = i + 1
    /\ UNCHANGED <<stream, pkg_id, libraries, target_path, pc, err, matVars>>

\* lines 62-72
SkipMessage ==
    /\ AtLine
    /\ Line.decodes
    /\ ~IsDesignatedArtifact(Line.message, pkg_id)
    /\ IsSkipped(Line.message)
    /\ i' = i + 1
    /\ UNCHANGED <<stream, pkg_id, pkg_message, libraries, target_path, pc,
                   err, matVars>>

\* lines 73-81: linked_paths is None, or empty
RejectPaths ==
    /\ AtLine
    /\ Line.decodes
    /\ ~IsDesignatedArtifact(Line.message, pkg_id)
    /\ ~IsSkipped(Line.message)
    /\ Failed(PathsCheck(Line.message))
    /\ Fail(PathsCheck(Line.message))
    /\ UNCHANGED <<interpVars, matVars>>

\* lines 82-92
PushLibraries ==
    /\ AtLine
    /\ Line.decodes
    /\ ~IsDesignatedArtifact(Line.message, pkg_id)
    /\ ~IsSkipped(Line.message)
    /\ ~Failed(PathsCheck(Line.message))
    /\ LET paths == IF IsSome(Line.message.linked_paths)
                    THEN PathSet(Unwrap(Line.message.linked_paths))
                    ELSE {}
       IN libraries' = libraries \o
              NewLibraries(Unwrap(Line.message.linked_libs), paths)
    /\ i' = i + 1
    /\ UNCHANGED <<stream, pkg_id, pkg_message, target_path, pc, err, matVars>>

-----------------------------------------------------------------------------
(* main, lines 95-116: the target directory *)

Ok(v) == [err |-> NoError, value |-> <<v>>]
Err(e) == [err |-> e, value |-> <<>>]

\* Iterator::find, line 108: the first element ending in ".rlib"
FindLastRlib(filenames) ==
    LET S == {k \in DOMAIN filenames : EndsWith(filenames[k], RlibSuffix)}
    IN IF S = {} THEN None
       ELSE Some(filenames[CHOOSE k \in S : \A j \in S : j <= k])
FindRlib(filenames) ==
    LET S == {k \in DOMAIN filenames : EndsWith(filenames[k], RlibSuffix)}
    IN IF S = {} THEN None
       ELSE Some(filenames[CHOOSE k \in S : \A j \in S : k <= j])

\* lines 99-112: the file whose directory is the target's parent
ArtifactFile(message, pkg) ==
    IF IsSome(message.executable) THEN Ok(Unwrap(message.executable))
    ELSE IF IsNone(message.filenames)
    THEN Err(Error("missing filenames for package", pkg))
    ELSE IF IsNone(FindRlib(Unwrap(message.filenames)))
    THEN Err(Error("missing rlib file for package", pkg))
    ELSE Ok(Unwrap(FindRlib(Unwrap(message.filenames))))

\* lines 95-116
TargetPath(captured, pkg) ==
    IF IsNone(captured)
    THEN Err(Error("no 'compiler-artifact' message found for package", pkg))
    ELSE LET file == ArtifactFile(Unwrap(captured), pkg)
         IN IF Failed(file.err) THEN file
            ELSE IF IsNone(Parent(Unwrap(file.value)))
            THEN Err(Error("can't find parent path for package", pkg))
            ELSE Ok(Join(Unwrap(Parent(Unwrap(file.value))), DepsDir))

ResolveTarget ==
    /\ pc = "interpret"
    /\ i = Len(stream)
    /\ LET r == TargetPath(pkg_message, pkg_id)
       IN IF Failed(r.err)
          THEN /\ Fail(r.err)
               /\ UNCHANGED target_path
          ELSE /\ target_path' = r.value
               /\ pc' = "materialize"
               /\ UNCHANGED err
    /\ UNCHANGED <<stream, pkg_id, i, pkg_message, libraries, matVars>>

-----------------------------------------------------------------------------
(* The filesystem: a function from the paths of interest to what is there. *)
(* Every proper prefix of such a path is a directory; any other path holds *)
(* nothing.  A regular file's data is a tag naming where it was created.   *)

NoEntry == [kind |-> "none", data |-> <<>>, abs |-> FALSE, comps |-> <<>>]
FileEntry(data) == [kind |-> "file", data |-> data, abs |-> FALSE, comps |-> <<>>]
DirEntry == [kind |-> "dir", data |-> <<>>, abs |-> FALSE, comps |-> <<>>]
\* a symbolic link and the target stored in it, absolute or relative
LinkEntry(abs, comps) == [kind |-> "link", data |-> <<>>, abs |-> abs, comps |-> comps]

Directories(f) ==
    UNION {{SubSeq(p, 1, k) : k \in 0..(Len(p) - 1)} : p \in DOMAIN f} \ DOMAIN f

\* symlink_metadata: what is at p, links not followed
Lookup(f, p) ==
    IF p \in DOMAIN f THEN f[p]
    ELSE IF p \in Directories(f) THEN DirEntry
    ELSE NoEntry

\* lines 160-166: read_link, a relative target joined to the link's parent
LinkTargetAsIs(p, entry) == entry.comps
LinkTarget(p, entry) ==
    IF entry.abs THEN entry.comps
    ELSE Unwrap(Parent(p)) \o entry.comps

\* the path reached from p by following links; None when they loop (ELOOP)
RECURSIVE FollowPath(_, _, _)
FollowPath(f, p, fuel) ==
    IF Lookup(f, p).kind # "link" THEN Some(p)
    ELSE IF fuel = 0 THEN None
    ELSE FollowPath(f, LinkTarget(p, Lookup(f, p)), fuel - 1)

\* metadata: what is at p, links followed
Follow(f, p) ==
    LET q == FollowPath(f, p, Cardinality(DOMAIN f))
    IN IF IsNone(q) THEN NoEntry ELSE Lookup(f, Unwrap(q))

\* Path::exists, Path::is_symlink, Path::is_dir
Exists(f, p) == Follow(f, p).kind \in {"file", "dir"}
IsSymlink(f, p) == Lookup(f, p).kind = "link"
IsDir(f, p) == Follow(f, p).kind = "dir"

IoResult(f, e) == [fs |-> f, err |-> e]

\* fs::remove_file: unlinks a file or a link
RemoveFile(f, p) ==
    IF Lookup(f, p).kind = "none" THEN IoResult(f, "NotFound")
    ELSE IF Lookup(f, p).kind = "dir" THEN IoResult(f, "IsADirectory")
    ELSE IoResult([f EXCEPT ![p] = NoEntry], "ok")

\* fs::soft_link(original, link): fails when something is at `link`
SoftLink(f, original, link) ==
    IF Lookup(f, link).kind # "none" THEN IoResult(f, "AlreadyExists")
    ELSE IF link \notin DOMAIN f THEN IoResult(f, "NotFound")
    ELSE IoResult([f EXCEPT ![link] = LinkEntry(FALSE, <<original>>)], "ok")

\* fs::copy(from, to): both followed; `from` must be a regular file
FsCopy(f, from, to) ==
    LET src == Follow(f, from)
        dst == FollowPath(f, to, Cardinality(DOMAIN f))
    IN IF src.kind = "none" THEN IoResult(f, "NotFound")
       ELSE IF src.kind = "dir" THEN IoResult(f, "InvalidInput")
       ELSE IF IsNone(dst) THEN IoResult(f, "FilesystemLoop")
       ELSE IF Lookup(f, Unwrap(dst)).kind = "dir" THEN IoResult(f, "IsADirectory")
       ELSE IF Unwrap(dst) \notin DOMAIN f THEN IoResult(f, "NotFound")
       ELSE IoResult([f EXCEPT ![Unwrap(dst)] = FileEntry(src.data)], "ok")

-----------------------------------------------------------------------------
(* main, lines 121-143: the search of each library *)

\* line 122
LibName(name) == DYLIB_PREFIX \o name \o DYLIB_SUFFIX

Decision(kind, src) == [kind |-> kind, src |-> src]

\* lines 127-138: what one candidate directory yields
DecideAltFirst(f, lib_path, file_name) ==
    LET src_path == Join(lib_path, file_name)
    IN IF IsNone(Parent(lib_path))
       THEN IF Exists(f, src_path) THEN Decision("copy", src_path)
            ELSE Decision("no parent", <<>>)
       ELSE LET alt_src_path ==
                    Join(Join(Unwrap(Parent(lib_path)), BinDir), file_name)
            IN IF Exists(f, alt_src_path) THEN Decision("copy", alt_src_path)
               ELSE IF Exists(f, src_path) THEN Decision("copy", src_path)
               ELSE Decision("miss", <<>>)
DecideUnchecked(f, lib_path, file_name) ==
    Decision("copy", Join(lib_path, file_name))
Decide(f, lib_path, file_name) ==
    LET src_path == Join(lib_path, file_name)
    IN IF Exists(f, src_path) THEN Decision("copy", src_path)
       ELSE IF IsNone(Parent(lib_path)) THEN Decision("no parent", <<>>)
       ELSE LET alt_src_path ==
                    Join(Join(Unwrap(Parent(lib_path)), BinDir), file_name)
            IN IF Exists(f, alt_src_path) THEN Decision("copy", alt_src_path)
               ELSE Decision("miss", <<>>)

\* line 121: the next Library is taken, line 122 names its file
NextLibrary ==
    /\ pc = "materialize"
    /\ li < Len(libraries)
    /\ li' = li + 1
    /\ lib_name' = LibName(libraries[li + 1].name)
    /\ todo' = libraries[li + 1].paths
    /\ tried' = <<>>
    /\ hits' = Append(hits, None)
    /\ fs0' = fs
    /\ pc' = "candidates"
    /\ UNCHANGED <<interpVars, err, fs, arg, stack, ret, calls, run, dst1>>

\* lines 126-139: paths.into_iter() yields a candidate, in no defined order
TryCandidate ==
    /\ pc = "candidates"
    /\ \E path \in todo :
          LET d == Decide(fs, path, lib_name)
          IN /\ todo' = todo \ {path}
             /\ tried' = Append(tried, path)
             /\ IF d.kind = "copy"
                THEN /\ hits' = [hits EXCEPT ![li] = Some(d.src)]
                     /\ arg' = d.src
                     /\ pc' = "copy"
                     /\ UNCHANGED err
                ELSE IF d.kind = "no parent"
                THEN /\ Fail(Error("no parent path for library", lib_name))
                     /\ UNCHANGED <<hits, arg>>
                ELSE UNCHANGED <<hits, arg, pc, err>>
    /\ calls' = 0
    /\ UNCHANGED <<interpVars, fs, fs0, li, lib_name, stack, ret, run, dst1>>

\* line 126: the iterator is exhausted
PathsExhausted ==
    /\ pc = "candidates"
    /\ todo = {}
    /\ pc' = "materialize"
    /\ UNCHANGED <<interpVars, err, matVars>>

\* line 144
Finish ==
    /\ pc = "materialize"
    /\ li = Len(libraries)
    /\ pc' = "done"
    /\ UNCHANGED <<interpVars, err, matVars>>

FirstRun(f, h) == [fs |-> f, hits |-> h]

\* the tool is run again on the same build: the same stream, the same
\* requests and target directory, the filesystem as the first run left it
Rerun ==
    /\ pc = "done"
    /\ run = 1
    /\ run' = 2
    /\ dst1' = FirstRun(fs, hits)
    /\ li' = 0
    /\ hits' = <<>>
    /\ pc' = "materialize"
    /\ UNCHANGED <<interpVars, err, fs, fs0, lib_name, todo, tried, arg,
                   stack, ret, calls>>

-----------------------------------------------------------------------------
(* copy, lines 147-190 *)

Frame(src_path, dst_path, link_target) ==
    [src_path |-> src_path, dst_path |-> dst_path, link_target |-> link_target]
NoFrame == Frame(<<>>, <<>>, <<>>)

Context(kind, path, cause) == Error(kind, [path |-> path, cause |-> cause])

\* a std::io::Error of the given ErrorKind
IoError(kind) == [kind |-> kind, arg |-> <<>>]

\* the calls the stack holds before it is exhausted: more than any chain of
\* distinct links of the filesystem needs
StackLimit(f) == Cardinality(DOMAIN f) + 1

\* line 153
DstPath(dst_dir, src_path) == Join(dst_dir, Unwrap(FileName(src_path)))

\* line 167: the source of the recursive call
CalleeSame(src_path, link_target) == src_path
Callee(src_path, link_target) == link_target

\* lines 154-158: the destination entry is removed; NotFound is no error
RemoveKeep(f, dst_path) == IoResult(f, "NotFound")
RemoveExisting(f, dst_path) == RemoveFile(f, dst_path)

Returns(f, r) == [kind |-> "return", fs |-> f, ret |-> r, frame |-> NoFrame]
Recurses(f, frame) == [kind |-> "recurse", fs |-> f, ret |-> NoError, frame |-> frame]

\* lines 147-170 and 183-188: a call of copy up to its recursive call, or to
\* its return when it makes none
Enter(f, src_path, dst_dir) ==
    IF IsNone(FileName(src_path))
    THEN Returns(f, Error("no base name for source path", src_path))
    ELSE LET dst_path == DstPath(dst_dir, src_path)
             removed == RemoveExisting(f, dst_path)
         IN IF removed.err \notin {"ok", "NotFound"}
            THEN Returns(f, Context("removing existing file", dst_path, IoError(removed.err)))
            ELSE IF IsSymlink(removed.fs, src_path)
            THEN Recurses(removed.fs,
                          Frame(src_path, dst_path,
                                LinkTarget(src_path, Lookup(removed.fs, src_path))))
            ELSE IF IsDir(removed.fs, src_path)
            THEN Returns(removed.fs, Error("source path is a directory", src_path))
            ELSE LET copied == FsCopy(removed.fs, src_path, dst_path)
                 IN Returns(copied.fs,
                            IF copied.err = "ok" THEN NoError
                            ELSE Context("copying regular file", src_path, IoError(copied.err)))

\* line 182: the link holds the base name of the link target
MakeLinkAbsolute(f, frame) ==
    IF Lookup(f, frame.dst_path).kind # "none" THEN IoResult(f, "AlreadyExists")
    ELSE IoResult([f EXCEPT ![frame.dst_path] = LinkEntry(TRUE, frame.link_target)], "ok")
MakeLink(f, frame) ==
    SoftLink(f, Unwrap(FileName(frame.link_target)), frame.dst_path)

\* lines 167-182 and 189: a call of copy after its recursive call returned r
Leave(f, frame, r) ==
    IF Failed(r)
    THEN Returns(f, Context("copying symlink target", frame.link_target, r))
    ELSE IF IsNone(FileName(frame.link_target))
    THEN Returns(f, Error("no base name for link target", frame.link_target))
    ELSE LET linked == MakeLink(f, frame)
         IN Returns(linked.fs,
                    IF linked.err = "ok" THEN NoError
                    ELSE Context("creating symbolic link", frame.dst_path, IoError(linked.err)))

\* copy is entered with src_path = arg
CopyCall ==
    /\ pc = "copy"
    /\ calls' = calls + 1
    /\ LET e == Enter(fs, arg, Unwrap(target_path))
       IN /\ fs' = e.fs
          /\ IF e.kind = "recurse"
             THEN /\ stack' = Append(stack, e.frame)
                  /\ arg' = Callee(arg, e.frame.link_target)
                  /\ pc' = IF Len(stack) + 1 >= StackLimit(fs)
                           THEN "stack overflow" ELSE "copy"
                  /\ UNCHANGED ret
             ELSE /\ ret' = e.ret
                  /\ pc' = "copy_return"
                  /\ UNCHANGED <<stack, arg>>
    /\ UNCHANGED <<interpVars, err, fs0, li, lib_name, todo, tried, hits, run, dst1>>

\* a call of copy returns to its caller: copy, or main (lines 139-141)
CopyReturn ==
    /\ pc = "copy_return"
    /\ IF stack = <<>>
       THEN /\ IF Failed(ret)
               THEN Fail(Context("copying library", Unwrap(hits[li]), ret))
               ELSE pc' = "materialize" /\ UNCHANGED err
            /\ UNCHANGED <<fs, stack, ret>>
       ELSE LET l == Leave(fs, stack[Len(stack)], ret)
            IN /\ stack' = SubSeq(stack, 1, Len(stack) - 1)
               /\ fs' = l.fs
               /\ ret' = l.ret
               /\ UNCHANGED <<pc, err>>
    /\ UNCHANGED <<interpVars, fs0, li, lib_name, todo, tried, hits, arg, calls,
                   run, dst1>>

-----------------------------------------------------------------------------
(* copy and the search of one library as functions of the filesystem *)

Outcome(f, e) == [fs |-> f, err |-> e]

\* copy(src_path, dst_dir) with `depth` calls already on the stack
RECURSIVE CopyResult(_, _, _, _)
CopyResult(f, src_path, dst_dir, depth) ==
    LET e == Enter(f, src_path, dst_dir)
    IN IF e.kind = "return" THEN Outcome(e.fs, e.ret)
       ELSE IF depth + 1 >= StackLimit(f)
       THEN Outcome(e.fs, Error("stack overflow", src_path))
       ELSE LET inner == CopyResult(e.fs, Callee(src_path, e.frame.link_target),
                                    dst_dir, depth + 1)
            IN IF inner.err.kind = "stack overflow" THEN inner
               ELSE LET l == Leave(inner.fs, e.frame, inner.err)
                    IN Outcome(l.fs, l.ret)

\* lines 126-142 with the candidates yielded in the order `order`
RECURSIVE RequestOutcome(_, _, _, _)
RequestOutcome(f, order, file_name, dst_dir) ==
    IF order = <<>> THEN Outcome(f, NoError)
    ELSE LET d == Decide(f, Head(order), file_name)
         IN IF d.kind = "miss"
            THEN RequestOutcome(f, Tail(order), file_name, dst_dir)
            ELSE IF d.kind = "no parent"
            THEN Outcome(f, Error("no parent path for library", file_name))
            ELSE LET c == CopyResult(f, d.src, dst_dir, 0)
                 IN IF Failed(c.err)
                    THEN Outcome(c.fs, Context("copying library", d.src, c.err))
                    ELSE c

-----------------------------------------------------------------------------
(* The filesystems the materializer is run on *)

\* populated paths of an initial filesystem: of the search, of copy alone
MaxEntries == 2
MaxCopyEntries == 3

TargetDir == << <<"out">>, <<"deps">> >>
DirReal == << <<"a">>, <<"lib">>, <<"real">> >>

NameL == LibName(Foo)
NameR == NameL \o <<".1">>
NameV == NameR \o <<".2">>

\* f is a filesystem over `paths` with at most `max` of them populated, those
\* of `must` among them, each from its options; a file's data names its path
InitialFs(f, paths, max, must, options) ==
    \E S \in SUBSET paths :
       /\ Cardinality(S) <= max
       /\ must \subseteq S
       /\ \E g \in [S -> UNION {options[p] : p \in S}] :
             /\ \A p \in S : g[p] \in options[p]
             /\ f = [p \in paths |->
                       IF p \notin S THEN NoEntry
                       ELSE IF g[p].kind = "file" THEN FileEntry(p)
                       ELSE g[p]]

MatPaths ==
    {Join(DirALib, NameL), Join(DirALib, NameR), Join(DirABin, NameL),
     Join(Root, NameL), Join(TargetDir, NameL), Join(TargetDir, NameR)}

MatOptions(p) ==
    {FileEntry(<<>>), DirEntry,
     LinkEntry(FALSE, <<NameR>>), LinkEntry(TRUE, Join(TargetDir, NameR))}

CandidateDirs == {DirALib, Root, TargetDir}

\* the elements of a set in some order
SeqOf(S) == CHOOSE s \in [1..Cardinality(S) -> S] : {s[k] : k \in DOMAIN s} = S

\* the build whose requests are materialized: an executable in /out and one
\* build script linking foo with the search directories `dirs`
BuildOf(dirs) ==
    << Decoded(Artifact(Some(Pkg), Some(<< <<"out">>, <<"app">> >>), None)),
       Decoded(BuildScript(Some(Dep), Some(<<Foo>>), Some(SeqOf(dirs)))) >>

\* the state in which main leaves its first loop on the build of `dirs`
Interpreted(dirs) ==
    /\ stream = BuildOf(dirs)
    /\ pkg_id = Pkg
    /\ i = Len(BuildOf(dirs))
    /\ pkg_message = Capture(None, BuildOf(dirs)[1].message)
    /\ libraries = NewLibraries(<<Foo>>, PathSet(SeqOf(dirs)))
    /\ target_path = TargetPath(Capture(None, BuildOf(dirs)[1].message), Pkg).value
    /\ err = NoError

InitMat ==
    /\ \E dirs \in SUBSET CandidateDirs : dirs # {} /\ Interpreted(dirs)
    /\ pc = "materialize"
    /\ InitialFs(fs, MatPaths, MaxEntries, {}, [p \in MatPaths |-> MatOptions(p)])
    /\ fs0 = fs
    /\ li = 0
    /\ lib_name = <<>>
    /\ todo = {}
    /\ tried = <<>>
    /\ hits = <<>>
    /\ arg = <<>>
    /\ stack = <<>>
    /\ ret = NoError
    /\ calls = 0
    /\ run = 1
    /\ dst1 = FirstRun(<<>>, <<>>)

NextMat ==
    \/ NextLibrary
    \/ TryCandidate
    \/ PathsExhausted
    \/ CopyCall
    \/ CopyReturn
    \/ Finish
    \/ Rerun

SpecMat == InitMat /\ [][NextMat]_vars

-----------------------------------------------------------------------------
(* copy on its own: main found `src` for libfoo.so and calls copy *)

CopyPaths ==
    {Join(DirALib, NameL), Join(DirALib, NameR), Join(DirALib, NameV),
     Join(DirReal, NameL), Join(DirReal, NameR), Join(DirReal, NameV),
     Join(TargetDir, NameL), Join(TargetDir, NameR), Join(TargetDir, NameV)}

CopySource == Join(DirALib, NameL)

\* what a previous run leaves in the target directory, or a directory; elsewhere
\* a file, a directory or a link; the source may also be missing
CopyOptions(p) ==
    IF SubSeq(p, 1, Len(p) - 1) = TargetDir
    THEN {FileEntry(<<>>), DirEntry, LinkEntry(FALSE, <<NameR>>)}
    ELSE {FileEntry(<<>>), DirEntry,
          LinkEntry(FALSE, <<NameR>>), LinkEntry(FALSE, <<NameV>>),
          LinkEntry(FALSE, << <<"real">>, NameL >>),
          LinkEntry(FALSE, << <<"real">>, NameR >>),
          LinkEntry(TRUE, Join(TargetDir, NameR))}
         \cup (IF p = CopySource THEN {NoEntry} ELSE {})

InitCopy ==
    /\ Interpreted({DirALib})
    /\ tried = <<DirALib>>
    /\ hits = <<Some(CopySource)>>
    /\ arg = CopySource
    /\ pc = "copy"
    /\ InitialFs(fs, CopyPaths, MaxCopyEntries, {CopySource},
                 [p \in CopyPaths |-> CopyOptions(p)])
    /\ fs0 = fs
    /\ li = 1
    /\ lib_name = NameL
    /\ todo = {}
    /\ stack = <<>>
    /\ ret = NoError
    /\ calls = 0
    /\ run = 1
    /\ dst1 = FirstRun(<<>>, <<>>)

NextCopy ==
    \/ CopyCall
    \/ CopyReturn
    \/ Finish

SpecCopy == InitCopy /\ [][NextCopy]_vars

\* a running process takes its next step
FairSpecCopy == SpecCopy /\ WF_vars(NextCopy)

-----------------------------------------------------------------------------
(* The interpreter on its own: every stream of at most MaxLines lines *)

InitInterp ==
    /\ stream \in Streams
    /\ pkg_id = Pkg
    /\ i = 0
    /\ pkg_message = None
    /\ libraries = <<>>
    /\ target_path = None
    /\ pc = "interpret"
    /\ err = NoError
    /\ fs = <<>>
    /\ fs0 = <<>>
    /\ li = 0
    /\ lib_name = <<>>
    /\ todo = {}
    /\ tried = <<>>
    /\ hits = <<>>
    /\ arg = <<>>
    /\ stack = <<>>
    /\ ret = NoError
    /\ calls = 0
    /\ run = 1
    /\ dst1 = FirstRun(<<>>, <<>>)

NextInterp ==
    \/ DecodeFailure
    \/ CaptureArtifact
    \/ SkipMessage
    \/ RejectPaths
    \/ PushLibraries
    \/ ResolveTarget

SpecInterp == InitInterp /\ [][NextInterp]_vars

-----------------------------------------------------------------------------
(* Properties of the interpreter *)

Matching(k) ==
    /\ stream[k].decodes
    /\ stream[k].message.reason = "compiler-artifact"
    /\ stream[k].message.package_id = Some(pkg_id)

\* the matching lines among those interpreted so far
MatchingSeen == {k \in 1..i : Matching(k)}

Least(S) == CHOOSE k \in S : \A j \in S : k <= j
Greatest(S) == CHOOSE k \in S : \A j \in S : j <= k

AfterLoop == pc # "interpret" /\ i = Len(stream)

IsRlib(p) == Len(p) > 0 /\ p[Len(p)][Len(p[Len(p)])] = ".rlib"
DirOf(p) == SubSeq(p, 1, Len(p) - 1)

\* C3: the target directory is the parent of the executable when there is
\* one, else the parent of the first file name ending in ".rlib", in both
\* cases with "deps" appended; without an executable and without such a file
\* name main fails with an error naming the designated package.
C3_TargetDirectory ==
    (AfterLoop /\ IsSome(pkg_message)) =>
        LET m == pkg_message[1]
            exe == m.executable
            files == IF m.filenames = None THEN <<>> ELSE m.filenames[1]
            rlibs == {k \in DOMAIN files : IsRlib(files[k])}
        IN IF exe # None
           THEN IF exe[1] # Root
                THEN /\ pc = "materialize"
                     /\ target_path = Some(DirOf(exe[1]) \o <<DepsDir>>)
                ELSE /\ pc = "failed"
                     /\ err.arg = <<pkg_id>>
           ELSE IF rlibs # {}
                THEN /\ pc = "materialize"
                     /\ target_path =
                            Some(DirOf(files[Least(rlibs)]) \o <<DepsDir>>)
                ELSE /\ pc = "failed"
                     /\ err.arg = <<pkg_id>>
                     /\ err.kind = IF m.filenames = None
                                   THEN "missing filenames for package"
                                   ELSE "missing rlib file for package"

C3_Witness ==
    /\ pc = "materialize"
    /\ pkg_message[1].executable = None
    /\ \E j, k \in DOMAIN pkg_message[1].filenames[1] :
          /\ j < k
          /\ IsRlib(pkg_message[1].filenames[1][j])
          /\ IsRlib(pkg_message[1].filenames[1][k])
          /\ DirOf(pkg_message[1].filenames[1][j])
                 # DirOf(pkg_message[1].filenames[1][k])
          /\ target_path = Some(DirOf(pkg_message[1].filenames[1][j]) \o <<DepsDir>>)

IsBuildScriptWithLibs(l) ==
    /\ l.decodes
    /\ l.message.reason = "build-script-executed"
    /\ l.message.package_id # None
    /\ l.message.linked_libs # None
    /\ l.message.linked_libs[1] # <<>>

ValidBuildScript(l) ==
    /\ IsBuildScriptWithLibs(l)
    /\ l.message.linked_paths # None
    /\ l.message.linked_paths[1] # <<>>

\* the names of the libraries of the valid build-script lines among the first k
RequestedNames[k \in 0..MaxLines + 1] ==
    IF k = 0 \/ k > Len(stream) THEN <<>>
    ELSE RequestedNames[k - 1] \o
         (IF ValidBuildScript(stream[k]) THEN stream[k].message.linked_libs[1]
          ELSE <<>>)

\* C5: the requests produced are, one per occurrence and in order, the names
\* of linked_libs of the valid build-script messages (a package, at least
\* one name, at least one path), so their number is the sum of the lengths
\* of those linked_libs; every other line contributes none.
C5_RequestCount ==
    /\ Len(libraries) = Len(RequestedNames[i])
    /\ \A k \in DOMAIN libraries : libraries[k].name = RequestedNames[i][k]

C5_Witness ==
    /\ pc = "materialize"
    /\ Cardinality({k \in 1..Len(stream) : Matching(k)}) = 1
    /\ Len(libraries) >= 3
    /\ \E j, k \in DOMAIN libraries : j # k /\ libraries[j] = libraries[k]

Offending(l) ==
    /\ IsBuildScriptWithLibs(l)
    /\ \/ l.message.linked_paths = None
       \/ l.message.linked_paths[1] = <<>>

C8_OrdinalFromOne ==
    (pc = "failed" /\ err.kind = "decode") =>
        /\ err.arg[1] \in DOMAIN stream
        /\ ~stream[err.arg[1]].decodes
        /\ \A k \in 1..(err.arg[1] - 1) : stream[k].decodes

\* C8 as amended: when a line fails to decode the run aborts with an error
\* that names the position of that line counted from 0 (the first line of
\* the stream is message 0), and no later line is interpreted.
C8_IndexFromZero ==
    /\ (pc = "failed" /\ err.kind = "decode") =>
          /\ err.arg[1] + 1 \in DOMAIN stream
          /\ ~stream[err.arg[1] + 1].decodes
          /\ \A k \in 1..err.arg[1] : stream[k].decodes
          /\ i = err.arg[1]
          /\ ~ENABLED NextInterp
    /\ \A k \in DOMAIN stream : ~stream[k].decodes => i < k

C8_Witness ==
    /\ pc = "failed"
    /\ err.kind = "decode"
    /\ err.arg[1] = 1
    /\ Len(stream) = 3
    /\ stream[3].decodes

-----------------------------------------------------------------------------
(* Properties of the search of a library (SpecMat) *)

Target == target_path[1]

\* a request of this run is under way or over
InRequest == li >= 1 /\ li = Len(hits)

\* the request is over: main left its inner loop, or returned with an error
RequestOver == InRequest /\ pc \in {"materialize", "done", "failed"}

Primary(d) == d \o <<lib_name>>
Alternate(d) == DirOf(d) \o <<BinDir, lib_name>>

\* one of the two files of candidate d exists when the request begins
Yields(d) ==
    \/ Exists(fs0, Primary(d))
    \/ d # Root /\ Exists(fs0, Alternate(d))

\* the data reached from p, links followed
DataAt(f, p) == Follow(f, p).data

\* C4: the candidates are examined one at a time, d/<file> before
\* parent(d)/bin/<file>; a candidate with neither is passed over and leaves
\* the filesystem alone; the first one examined that has either is the last
\* one examined, and its file (d/<file> when that exists) is the one handed
\* to copy and, when copy succeeds, the one the target directory holds; a
\* candidate without a parent and without d/<file> is a fatal error naming
\* the library; with no candidate left and none found, nothing has changed.
C4_FirstCandidateWins ==
    InRequest =>
        /\ \A j, k \in DOMAIN tried : j # k => tried[j] # tried[k]
        /\ \A k \in DOMAIN tried : tried[k] \notin todo
        /\ \A k \in 1..(Len(tried) - 1) : ~Yields(tried[k]) /\ tried[k] # Root
        /\ hits[li] # None =>
              /\ tried # <<>>
              /\ Yields(tried[Len(tried)])
              /\ hits[li] = Some(IF Exists(fs0, Primary(tried[Len(tried)]))
                                 THEN Primary(tried[Len(tried)])
                                 ELSE Alternate(tried[Len(tried)]))
              /\ pc \in {"materialize", "done"} =>
                    /\ Follow(fs, Target \o <<lib_name>>).kind = "file"
                    /\ DataAt(fs, Target \o <<lib_name>>) = DataAt(fs0, hits[li][1])
        /\ (hits[li] = None /\ pc # "failed") =>
              /\ \A k \in DOMAIN tried : ~Yields(tried[k]) /\ tried[k] # Root
              /\ fs = fs0
              /\ err = NoError
        /\ (hits[li] = None /\ pc = "failed") =>
              /\ err = [kind |-> "no parent path for library", arg |-> <<lib_name>>]
              /\ tried[Len(tried)] = Root
              /\ ~Exists(fs0, Primary(Root))
              /\ fs = fs0

\* a first candidate with neither file was passed over, the second one had the
\* file only in its sibling bin directory, a third one was never examined
C4_Witness ==
    /\ pc = "done"
    /\ run = 1
    /\ Len(tried) = 2
    /\ todo # {}
    /\ \E d \in todo : Yields(d)
    /\ hits[li] = Some(Alternate(tried[2]))

Perms(S) == {o \in [1..Cardinality(S) -> S] : {o[k] : k \in DOMAIN o} = S}

AtRequestStart == pc = "candidates" /\ tried = <<>>

\* the outcome: success or failure, and the filesystem left behind
Seen(o) == [failed |-> Failed(o.err), fs |-> o.fs]

\* C9 as stated: for a fixed filesystem and request, the outcome is the same
\* for every order in which the candidate directories are tried.
C9_OrderImmaterial ==
    AtRequestStart =>
        \A o1, o2 \in Perms(todo) :
            Seen(RequestOutcome(fs, o1, lib_name, Target))
                = Seen(RequestOutcome(fs, o2, lib_name, Target))

\* a candidate that ends the search: it has one of the two files, or it has
\* neither d/<file> nor a parent
Decisive(d) == Yields(d) \/ d = Root

\* C9 as amended: the candidates are a deduplicated set tried in no defined
\* order, and the outcome of a request is that of the first candidate, in the
\* order of the trial, that has the file or fails for want of a parent; so
\* the outcome is the same for every order when at most one candidate does.
C9_OrderImmaterialIfOneDecides ==
    /\ AtRequestStart =>
          /\ fs = fs0
          /\ Cardinality({d \in todo : Decisive(d)}) <= 1 =>
                \A o1, o2 \in Perms(todo) :
                    RequestOutcome(fs, o1, lib_name, Target)
                        = RequestOutcome(fs, o2, lib_name, Target)
    /\ RequestOver =>
          /\ todo \cup {tried[k] : k \in DOMAIN tried} = libraries[li].paths
          /\ Outcome(fs, err)
                = RequestOutcome(fs0, tried \o SeqOf(todo), lib_name, Target)

C9_Witness ==
    /\ RequestOver
    /\ pc = "materialize"
    /\ hits[li] # None
    /\ Cardinality(libraries[li].paths) >= 2
    /\ Cardinality({d \in libraries[li].paths : Decisive(d)}) = 1
    /\ Len(tried) >= 2

\* C7 as stated: a re-run over the output of the first run succeeds and
\* leaves the target directory as the first run left it.
C7_RerunSame ==
    (run = 2 /\ RequestOver) =>
        /\ pc # "failed"
        /\ pc = "done" => fs = dst1.fs

\* C7 as amended: a re-run over the output of the first run, in which each
\* library is found in the same source file as in the first run (or in none,
\* as in the first run), succeeds and leaves the target directory as the
\* first run left it: each destination entry, a regular file or a link, is
\* removed and written again.
C7_RerunSameIfSameSource ==
    (run = 2 /\ RequestOver /\ \A k \in 1..li : hits[k] = dst1.hits[k]) =>
        /\ pc # "failed"
        /\ pc = "done" => fs = dst1.fs

\* the re-run replaced a link and the file it points to
C7_Witness ==
    /\ run = 2
    /\ pc = "done"
    /\ hits = dst1.hits
    /\ hits[1] # None
    /\ IsSymlink(fs0, hits[1][1])
    /\ IsSymlink(dst1.fs, Target \o <<lib_name>>)
    /\ IsSymlink(fs, Target \o <<lib_name>>)

-----------------------------------------------------------------------------
(* Properties of copy (SpecCopy, FairSpecCopy) *)

\* the path copy was called on by main, and the destination directory
Src == hits[li][1]

\* the paths copy's recursion would visit from p when nothing disturbs it: p,
\* what p links to, and so on, as far as `fuel` links
RECURSIVE Chain(_, _, _)
Chain(f, p, fuel) ==
    IF Lookup(f, p).kind # "link" \/ fuel = 0 THEN <<p>>
    ELSE <<p>> \o Chain(f, LinkTarget(p, Lookup(f, p)), fuel - 1)

ChainOf(f, p) == Chain(f, p, Cardinality(DOMAIN f))

\* the links from p end in something that is not a link
Acyclic(f, p) == Lookup(f, ChainOf(f, p)[Len(ChainOf(f, p))]).kind # "link"

\* the number of links of the chain
Links(f, p) == Len(ChainOf(f, p)) - 1

BaseName(p) == p[Len(p)]

\* no two paths of the chain share a base name
DistinctNames(c) ==
    \A j, k \in DOMAIN c : j # k => BaseName(c[j]) # BaseName(c[k])

\* no path of the chain is an entry of the directory dir
Outside(c, dir) == \A k \in DOMAIN c : DirOf(c[k]) # dir

\* dir holds no directory under the base name of a path of the chain
NoDirectoryAt(f, c, dir) ==
    \A k \in DOMAIN c : Lookup(f, Join(dir, BaseName(c[k]))).kind # "dir"

\* the top-level call of copy has returned to main
Returned == pc \in {"materialize", "done", "failed"}

\* what C2 promises of a link that resolves to a regular file: success, the
\* real file's copy under its base name, a relative link under the link's name
\* holding the base name of the link's target, and the link leading to the copy
LinkCopied ==
    LET c == ChainOf(fs0, Src)
        real == c[Len(c)]
    IN /\ pc # "failed"
       /\ Lookup(fs, Join(Target, BaseName(real))) = FileEntry(DataAt(fs0, real))
       /\ Lookup(fs, Join(Target, BaseName(Src)))
             = LinkEntry(FALSE, <<BaseName(c[2])>>)
       /\ Follow(fs, Join(Target, BaseName(Src))) = FileEntry(DataAt(fs0, real))

ResolvesToFile == IsSymlink(fs0, Src) /\ Follow(fs0, Src).kind = "file"

\* C2 as stated: copy of a link that resolves to a regular file succeeds,
\* whatever the base names and directories, and leaves the copy of the real
\* file and a relative link to its base name.
C2_LinkCopied ==
    (Returned /\ ResolvesToFile) => LinkCopied

\* the chain can be laid out flat in the destination directory
Flattens ==
    /\ DistinctNames(ChainOf(fs0, Src))
    /\ Outside(ChainOf(fs0, Src), Target)
    /\ NoDirectoryAt(fs0, ChainOf(fs0, Src), Target)

\* C2 as amended: copy of a link that resolves to a regular file through a
\* chain of links succeeds exactly when the base names of the paths of the
\* chain are pairwise distinct, none of them is an entry of dst_dir and
\* dst_dir holds no directory under one of those names; it then leaves in
\* dst_dir the copy of the real file under its base name and, for each link
\* of the chain, a relative link of the same name holding only the base name
\* of that link's target, so that the link created for the source leads to
\* the copy.  Otherwise copy fails.
C2_LinkCopiedIfFlattens ==
    (Returned /\ ResolvesToFile) =>
        /\ Flattens <=> pc # "failed"
        /\ Flattens =>
              /\ LinkCopied
              /\ \A k \in 1..Links(fs0, Src) :
                    Lookup(fs, Join(Target, BaseName(ChainOf(fs0, Src)[k])))
                        = LinkEntry(FALSE, <<BaseName(ChainOf(fs0, Src)[k + 1])>>)

\* a link in one directory to a link in another to the real file was copied
C2_Witness ==
    /\ pc = "materialize"
    /\ ResolvesToFile
    /\ Links(fs0, Src) = 2
    /\ DirOf(ChainOf(fs0, Src)[2]) # DirOf(Src)
    /\ Flattens
    /\ LinkCopied

\* C10 as stated: on an acyclic chain of n links copy makes exactly n + 1
\* calls and then returns.
C10_ExactCalls ==
    (Returned /\ Acyclic(fs0, Src)) => calls = Links(fs0, Src) + 1

\* no call of copy fails before it looks at its source
Undisturbed ==
    /\ Outside(ChainOf(fs0, Src), Target)
    /\ NoDirectoryAt(fs0, ChainOf(fs0, Src), Target)

\* the process is over: main returned, or the stack is exhausted
Halted == pc \in {"done", "failed", "stack overflow"}

\* the calls made so far, and how the recursion can end
C10_Calls ==
    /\ Acyclic(fs0, Src) =>
          /\ calls <= Links(fs0, Src) + 1
          /\ pc # "stack overflow"
          /\ (Returned /\ Undisturbed) => calls = Links(fs0, Src) + 1
    /\ ~Acyclic(fs0, Src) =>
          /\ (Returned /\ Undisturbed) => FALSE
          /\ Returned => /\ pc = "failed"
                         /\ err.kind = "copying library"
          /\ pc = "stack overflow" => Undisturbed

\* C10 as amended: copy terminates on every source that is an acyclic chain
\* of links ending in a non-link: a chain of n links makes at most n + 1
\* nested calls, exactly n + 1 unless a call fails to remove its destination
\* or finds its source removed, and then returns; only a cyclic chain makes
\* the recursion run without end, which it does until the stack is exhausted
\* unless such a failure ends it first: the cycle itself is never detected.
C10_TerminatesIffAcyclic ==
    /\ []C10_Calls
    /\ <>Halted

\* a chain of two links took three calls and returned
C10_Witness ==
    /\ pc = "materialize"
    /\ Acyclic(fs0, Src)
    /\ Links(fs0, Src) = 2
    /\ calls = 3

====
